---------------------------- MODULE Spec2Model ----------------------------
(***************************************************************************)
(* Session-token lifecycle of the StreamCore API user controller:          *)
(* loginUser, refreshAccessToken, logoutUser and the shared helper         *)
(* generateAccessAndRefreshTokens (src/src/controllers/user.controller.js).*)
(* Every request runs in a slot of req and advances one step per database  *)
(* round trip (each await of the handler), so that concurrent requests     *)
(* interleave exactly where the handlers can.                              *)
(***************************************************************************)
EXTENDS Integers, FiniteSets, Sequences, TLC

(* ------------------------------ bounds --------------------------------- *)
\* Number of request slots (requests that can be in flight at once).
MaxReq == 2
\* The clock runs over the seconds 0..MaxClock.
MaxClock == 2
\* The user collection takes at most this many new documents.
MaxAccounts == 3

(* --------------------------- configuration ----------------------------- *)
\* REFRESH_TOKEN_EXPIRY, in clock seconds (the refresh token is long-lived).
RefreshExpiry == 2

ReqIds == 1..MaxReq

\* The accounts of the user collection, and an id whose account no longer
\* exists (a refresh token issued to it is still in a client's hands).
Registered == {"u1", "u2"}
Removed == "u3"
\* The account whose holder sends requests; the other account is a
\* bystander whose record must stay as it is.
Callers == {"u1"}

EmailOf(u) == IF u = "u1" THEN "e1" ELSE IF u = "u2" THEN "e2" ELSE "e3"
UsernameOf(u) == IF u = "u1" THEN "n1" ELSE IF u = "u2" THEN "n2" ELSE "n3"
PlainPasswordOf(u) == IF u = "u1" THEN "p1" ELSE "p2"

\* An absent value of a token field (undefined / null / no cookie).
NoToken == [id |-> "none", iat |-> 0, secret |-> "none"]

(* ----------------------------- primitives ------------------------------ *)
\* bcrypt: the stored value is a hash, never the plaintext.
Hash(pw) == <<"bcrypt", pw>>

\* isPasswordCorrect comparing only the hash scheme, not the digest.
isPasswordCorrectSchemeOnly(password, stored) == Hash(password)[1] = stored[1]

\* user.isPasswordCorrect(password): bcrypt.compare of the submitted
\* plaintext against the stored hash; a mismatch is FALSE, never a throw.
isPasswordCorrect(password, stored) == Hash(password) = stored

\* user.generateRefreshToken(): jwt.sign({_id}, REFRESH_TOKEN_SECRET,
\* {expiresIn}).  The token is a function of the claims, the secret and the
\* clock second it is signed at (iat; exp = iat + expiry), nothing else.
generateRefreshToken(u, clock) == [id |-> u, iat |-> clock, secret |-> "refresh"]

\* user.generateAccessToken(): the same with ACCESS_TOKEN_SECRET.
generateAccessToken(u, clock) == [id |-> u, iat |-> clock, secret |-> "access"]

\* The exp claim of a refresh token.
ExpiryOf(tok) == tok.iat + RefreshExpiry

\* jwt.verify called with ignoreExpiration: the expiry is not checked.
jwtVerifyIgnoreExpiration(tok, clock) ==
    IF tok.secret # "refresh" THEN "invalid signature" ELSE "ok"

\* jwt.verify(token, REFRESH_TOKEN_SECRET): the signature is checked first,
\* then the expiry; the result is "ok" or the message of the error thrown.
jwtVerify(tok, clock) ==
    IF tok.secret # "refresh" THEN "invalid signature"
    ELSE IF clock >= ExpiryOf(tok) THEN "jwt expired"
    ELSE "ok"

\* A comparison of the tokens' user claims instead of their text.
TokenMatchesById(incoming, stored) == incoming.id = stored.id

\* incomingRefreshToken !== user.refreshToken, negated: textual equality.
TokenMatches(incoming, stored) == incoming = stored

\* A catch that drops the message of the error it caught.
RefreshCatchFixedMessage(message) == [status |-> 401, msg |-> "Invalid refresh token"]

\* catch (error) { throw new ApiError(401, error?.message || "Invalid refresh token") }
RefreshCatch(message) ==
    [status |-> 401, msg |-> IF message = "" THEN "Invalid refresh token" ELSE message]

\* A save that fills the field only when it is empty.
SaveRefreshTokenIfEmpty(store, u, tok) ==
    IF store[u].refreshToken = NoToken THEN [store EXCEPT ![u].refreshToken = tok]
    ELSE store

\* An update that is not confined to the user's own record.
SaveRefreshTokenEveryRecord(store, u, tok) ==
    [v \in DOMAIN store |-> [store[v] EXCEPT !.refreshToken = tok]]

\* user.refreshToken = refreshToken; await user.save(...): the field of the
\* user's record is overwritten, whatever it held.
SaveRefreshToken(store, u, tok) == [store EXCEPT ![u].refreshToken = tok]

\* user.refreshToken = refreshToken on a loaded document: Mongoose marks
\* the path modified only when the value assigned differs from the value
\* the document was loaded with.
Modified(loaded, tok) == tok # loaded

\* await user.save({validateBeforeSave: false}) after that assignment: the
\* update sent to the store sets the modified paths only; with none
\* modified nothing is sent and the record stays as other requests left it.
SaveDocument(store, u, loaded, tok) ==
    IF Modified(loaded, tok) THEN SaveRefreshToken(store, u, tok) ELSE store

\* A password save that also drops the user's session.
SavePasswordRevoking(store, u, pw) ==
    [store EXCEPT ![u].password = Hash(pw), ![u].refreshToken = NoToken]

\* user.password = newPassword; await user.save(...): password is the one
\* modified path, and the pre-save hook stores its hash.
SavePassword(store, u, pw) == [store EXCEPT ![u].password = Hash(pw)]

\* String.prototype.toLowerCase on the usernames tried.
toLowerCase(str) == IF str = "Alice" THEN "alice" ELSE str

\* The document handed to User.create with the username as submitted.
NewUserRawUsername(email, username) == [email |-> email, username |-> username]

\* The document registerUser hands to User.create: the email as
\* submitted, the username in lower case.
NewUser(email, username) == [email |-> email, username |-> toLowerCase(username)]

\* registerUser's User.findOne({$or: [{email}, {username}]}), both values
\* as submitted: whether a stored document matches.
ExistingUser(accts, email, username) ==
    \E i \in 1..Len(accts) : accts[i].email = email \/ accts[i].username = username

\* The unique indexes of the user schema on email and on username: an
\* insert whose email or username equals a stored one is rejected.
DuplicateKey(accts, doc) ==
    \E i \in 1..Len(accts) :
       accts[i].email = doc.email \/ accts[i].username = doc.username

\* The fields of a user document that the controller reads or writes.
UserFields ==
    {"_id", "username", "email", "fullName", "avatar", "coverImage",
     "watchHistory", "password", "refreshToken"}

\* .select("-password") and $project: {password: 0}: the document
\* without its password field.
SelectWithoutPassword(fields) == fields \ {"password"}

\* A sanitizing projection that forgets the refresh token.
SelectSanitizedPasswordOnly(fields) == fields \ {"password"}

\* .select("-password -refreshToken"): the document without these fields.
SelectSanitized(fields) == fields \ {"password", "refreshToken"}

\* The fields of the document getUserChannelProfile's pipeline builds.
ChannelFields ==
    UserFields \cup {"subscribers", "subscribedTo", "subscribersCount",
                     "channelsSubscribedToCount", "isSubscribed"}

\* The value of the refreshToken field of a response document made of
\* the given fields of a record whose refreshToken field holds stored.
RefreshTokenIn(fields, stored) ==
    IF "refreshToken" \in fields THEN stored ELSE NoToken

\* findByIdAndUpdate(_id, {$set: {fullName, email}}): of the two, the
\* record kept here has the email.
SaveAccountDetails(store, u, email) == [store EXCEPT ![u].email = email]

\* The owner of the video in the watch history of user u.
WatchedVideoOwner(u) == IF u = "u1" THEN "u2" ELSE "u1"

\* User.findOne({$or: [{email}, {username}]}): the matching records.
FindOne(store, email, username) ==
    {u \in Registered : store[u].email = email \/ UsernameOf(u) = username}

\* The record findOne returns when several match: the first in store order.
FirstOf(S) == IF "u1" \in S THEN "u1" ELSE "u2"

NoError == [status |-> 0, msg |-> ""]

\* loginUser looking the user up before it validates the body.
LoginRefusalLookupFirst(email, username, password, found, isPasswordValid) ==
    IF found = {}
    THEN [status |-> 404, msg |-> "User does not exist"]
    ELSE IF (email = "" /\ username = "") \/ password = ""
    THEN [status |-> 400, msg |-> "Email/Username and password required"]
    ELSE IF ~isPasswordValid
    THEN [status |-> 401, msg |-> "Invalid credentials"]
    ELSE NoError

\* loginUser with the result of isPasswordCorrect never looked at (as when
\* the promise itself, always truthy, is tested).
LoginRefusalPasswordUnchecked(email, username, password, found, isPasswordValid) ==
    IF (email = "" /\ username = "") \/ password = ""
    THEN [status |-> 400, msg |-> "Email/Username and password required"]
    ELSE IF found = {}
    THEN [status |-> 404, msg |-> "User does not exist"]
    ELSE NoError

\* The ApiError loginUser throws before it generates tokens, NoError when
\* it throws none: missing fields, no such user, password mismatch.
LoginRefusal(email, username, password, found, isPasswordValid) ==
    IF (email = "" /\ username = "") \/ password = ""
    THEN [status |-> 400, msg |-> "Email/Username and password required"]
    ELSE IF found = {}
    THEN [status |-> 404, msg |-> "User does not exist"]
    ELSE IF ~isPasswordValid
    THEN [status |-> 401, msg |-> "Invalid credentials"]
    ELSE NoError

(* ------------------------------- state --------------------------------- *)
VARIABLES
    now,        \* the clock, in seconds
    db,         \* the user collection: password hash and refreshToken field
    req,        \* the request slots
    prevResp,   \* history: the most recently completed request
    latest,     \* history: the refresh token most recently returned per user
    superseded, \* history: refresh tokens returned before the latest one
    used,       \* history: tokens a successful refresh was presented with
    lastLogin,  \* history: the token the latest successful login returned
    prevLogin,  \* history: tokens returned by logins before the latest one
    lastWriter, \* history: the slot whose write to refreshToken came last
    observe,    \* whether prevResp, used, lastLogin and prevLogin are kept:
                \* they describe a run of requests that follow one another
    accounts,   \* the user documents created by registerUser, in order
    reg         \* the slots of the register requests

vars == <<now, db, req, prevResp, latest, superseded, used, lastLogin,
          prevLogin, lastWriter, observe, accounts, reg>>

regvars == <<accounts, reg>>

hist == <<latest, superseded, used, lastLogin, prevLogin>>

IdleReq ==
    [op |-> "idle", pc |-> "idle", email |-> "", username |-> "", password |-> "",
     tok |-> NoToken, uid |-> "none",
     vtime |-> 0, seen |-> NoToken, loaded |-> NoToken,
     newTok |-> NoToken, newAcc |-> NoToken,
     status |-> 0, msg |-> "", accessToken |-> NoToken, refreshToken |-> NoToken,
     user |-> {}, userRefreshToken |-> NoToken,
     after |-> "none", replay |-> FALSE, stale |-> FALSE]

NoResp == [op |-> "none", tok |-> NoToken]

IdleReg ==
    [pc |-> "idle", email |-> "", username |-> "", avatar |-> FALSE,
     status |-> 0, msg |-> "", user |-> {}]

Start ==
    /\ now = 0
    /\ db = [u \in Registered |->
                [email |-> EmailOf(u),
                 password |-> Hash(PlainPasswordOf(u)),
                 refreshToken |-> IF u = "u2" THEN generateRefreshToken(u, 0)
                                  ELSE NoToken]]
    /\ req = [r \in ReqIds |-> IdleReq]
    /\ prevResp = NoResp
    /\ latest = [u \in Registered |-> db[u].refreshToken]
    /\ superseded = {}
    /\ used = {}
    /\ lastLogin = [u \in Registered |-> NoToken]
    /\ prevLogin = {}
    /\ lastWriter = [u \in Registered |-> 0]
    /\ accounts = << >>
    /\ reg = [r \in ReqIds |-> IdleReg]

Init == Start /\ observe = FALSE
SeqInit == Start /\ observe = TRUE

Free(r) == req[r].pc \in {"idle", "done"}
Active(r) == ~Free(r)
Quiescent == \A r \in ReqIds : Free(r)

\* Refresh tokens that have been handed to some client.
Issued ==
    ({latest[u] : u \in Callers} \cup superseded
        \cup {generateRefreshToken(Removed, 0)}) \ {NoToken}

\* What a client can put in the refreshToken cookie or body field: nothing,
\* a token it was given, a token signed with another key (an access token),
\* or one with a made-up signature.
Presentable ==
    {NoToken} \cup Issued
        \cup {[id |-> "u1", iat |-> 0, secret |-> s] : s \in {"access", "forged"}}

\* A new request takes the first free slot.  The responses kept in the
\* slots of completed requests are dropped when it arrives.
FirstFree(r) == Free(r) /\ \A s \in ReqIds : s < r => Active(s)
Slots == [s \in ReqIds |-> IF Free(s) THEN IdleReq ELSE req[s]]

\* With its response, the record of a completed request's write is dropped.
Forget ==
    [u \in Registered |->
        IF lastWriter[u] # 0 /\ Free(lastWriter[u]) THEN 0 ELSE lastWriter[u]]

\* The most recently completed request, when it succeeded: a login with
\* the refresh token it returned, a logout with the token the record held
\* when it ran.
Remember(op, status, tok) ==
    IF observe /\ status = 200 /\ op \in {"login", "logout"}
    THEN [op |-> op, tok |-> tok] ELSE NoResp

\* The response (or thrown ApiError) that ends request r.  The request's
\* inputs stay on record with it; the handler's locals are gone.
Respond(slots, r, q, status, msg, acc, rt) ==
    /\ req' = [slots EXCEPT ![r] =
                 [q EXCEPT !.pc = "done", !.status = status, !.msg = msg,
                           !.accessToken = acc, !.refreshToken = rt,
                           !.uid = IF status = 200 THEN q.uid ELSE "none",
                           !.seen = NoToken, !.loaded = NoToken,
                           !.newTok = NoToken, !.newAcc = NoToken]]
    /\ prevResp' = Remember(q.op, status, rt)

(* ------------------------------ actions -------------------------------- *)
Tick ==
    /\ now < MaxClock
    /\ now' = now + 1
    /\ UNCHANGED <<db, req, prevResp, hist, lastWriter, observe, regvars>>

\* loginUser up to the call of generateAccessAndRefreshTokens: validation,
\* findOne, isPasswordCorrect.  The record is read once, by findOne, and
\* the password is compared with the hash in the record read, so the two
\* awaits are one step.
LoginCheck(r, email, username, password) ==
    /\ FirstFree(r)
    /\ LET q == [IdleReq EXCEPT !.op = "login", !.email = email,
                                !.username = username, !.password = password]
           found == FindOne(db, email, username)
           u == FirstOf(found)
           valid == found # {} /\ isPasswordCorrect(password, db[u].password)
           e == LoginRefusal(email, username, password, found, valid)
       IN  IF e # NoError
           THEN Respond(Slots, r, q, e.status, e.msg, NoToken, NoToken)
           ELSE /\ req' = [Slots EXCEPT ![r] = [q EXCEPT !.uid = u, !.pc = "gen_find"]]
                /\ UNCHANGED prevResp
    /\ lastWriter' = Forget
    /\ UNCHANGED <<now, db, hist, observe, regvars>>

\* refreshAccessToken up to the first await: the token is read from the
\* cookie or body and verified.
RefreshBegin(r, tok) ==
    /\ FirstFree(r)
    /\ LET q == [IdleReq EXCEPT
                   !.op = "refresh", !.tok = tok, !.vtime = now,
                   !.after = IF prevResp.tok = tok /\ tok # NoToken
                             THEN prevResp.op ELSE "none",
                   !.replay = tok \in used,
                   !.stale = tok \in prevLogin]
           v == jwtVerify(tok, now)
       IN  IF tok = NoToken
           THEN Respond(Slots, r, q, 401, "No refresh token found", NoToken, NoToken)
           ELSE IF v # "ok"
           THEN Respond(Slots, r, q, RefreshCatch(v).status, RefreshCatch(v).msg,
                        NoToken, NoToken)
           ELSE /\ req' = [Slots EXCEPT ![r] = [q EXCEPT !.uid = tok.id, !.pc = "rf_find"]]
                /\ UNCHANGED prevResp
    /\ lastWriter' = Forget
    /\ UNCHANGED <<now, db, hist, observe, regvars>>

\* A refresh that answers a mismatch by dropping the stored token.
RefreshFindRevoking(r) ==
    /\ req[r].pc = "rf_find"
    /\ LET q == req[r]
           e1 == RefreshCatch("Invalid refresh token")
           e2 == RefreshCatch("Expired or invalid refresh token")
       IN  IF q.uid \notin Registered
           THEN Respond(req, r, q, e1.status, e1.msg, NoToken, NoToken) /\ UNCHANGED db
           ELSE IF ~TokenMatches(q.tok, db[q.uid].refreshToken)
           THEN /\ Respond(req, r, q, e2.status, e2.msg, NoToken, NoToken)
                /\ db' = SaveRefreshToken(db, q.uid, NoToken)
           ELSE /\ req' = [req EXCEPT ![r] =
                             [q EXCEPT !.seen = db[q.uid].refreshToken,
                                       !.pc = "gen_find"]]
                /\ UNCHANGED <<prevResp, db>>
    /\ UNCHANGED <<now, hist, lastWriter, observe, regvars>>

\* refreshAccessToken: User.findById(decodedToken._id) and the comparison
\* of the presented token with the refreshToken field of the record read.
RefreshFind(r) ==
    /\ req[r].pc = "rf_find"
    /\ LET q == req[r]
           e1 == RefreshCatch("Invalid refresh token")
           e2 == RefreshCatch("Expired or invalid refresh token")
       IN  IF q.uid \notin Registered
           THEN Respond(req, r, q, e1.status, e1.msg, NoToken, NoToken)
           ELSE IF ~TokenMatches(q.tok, db[q.uid].refreshToken)
           THEN Respond(req, r, q, e2.status, e2.msg, NoToken, NoToken)
           ELSE /\ req' = [req EXCEPT ![r] =
                             [q EXCEPT !.seen = db[q.uid].refreshToken,
                                       !.pc = "gen_find"]]
                /\ UNCHANGED prevResp
    /\ UNCHANGED <<now, db, hist, lastWriter, observe, regvars>>

\* generateAccessAndRefreshTokens: findById loads the user document, then
\* both tokens are signed.
GenFind(r) ==
    /\ req[r].pc = "gen_find"
    /\ req' = [req EXCEPT ![r].loaded = db[req[r].uid].refreshToken,
                          ![r].newAcc = generateAccessToken(req[r].uid, now),
                          ![r].newTok = generateRefreshToken(req[r].uid, now),
                          ![r].pc = "gen_save"]
    /\ UNCHANGED <<now, db, prevResp, hist, lastWriter, observe, regvars>>

\* generateAccessAndRefreshTokens: findById rejects, or finds no document
\* (the call on null throws); the catch turns either into ApiError(500),
\* which refreshAccessToken's own catch turns into 401.
GenFindFail(r) ==
    /\ req[r].pc = "gen_find"
    /\ LET q == req[r]
           m == "Something went wrong while generating tokens"
       IN  IF q.op = "refresh"
           THEN Respond(req, r, q, RefreshCatch(m).status, RefreshCatch(m).msg,
                        NoToken, NoToken)
           ELSE Respond(req, r, q, 500, m, NoToken, NoToken)
    /\ UNCHANGED <<now, db, hist, lastWriter, observe, regvars>>

\* generateAccessAndRefreshTokens: user.save().  On success the pair goes
\* back to the caller: refreshAccessToken responds with it at once,
\* loginUser first reads the user again.
GenSaveOk(r) ==
    /\ req[r].pc = "gen_save"
    /\ LET q == req[r] IN
       /\ db' = SaveDocument(db, q.uid, q.loaded, q.newTok)
       /\ lastWriter' = IF Modified(q.loaded, q.newTok)
                        THEN [lastWriter EXCEPT ![q.uid] = r] ELSE lastWriter
       /\ IF q.op = "refresh"
          THEN /\ Respond(req, r, q, 200, "Access token refreshed", q.newAcc, q.newTok)
               /\ superseded' = superseded \cup ({latest[q.uid]} \ {NoToken})
               /\ latest' = [latest EXCEPT ![q.uid] = q.newTok]
               /\ used' = IF observe THEN used \cup {q.tok} ELSE used
               /\ UNCHANGED <<lastLogin, prevLogin>>
          ELSE /\ req' = [req EXCEPT ![r].pc = "lg_select", ![r].loaded = NoToken]
               /\ UNCHANGED <<prevResp, hist>>
    /\ UNCHANGED <<now, observe, regvars>>

\* generateAccessAndRefreshTokens: user.save() rejects; the catch turns it
\* into ApiError(500), which refreshAccessToken's own catch turns into 401.
GenSaveFail(r) ==
    /\ req[r].pc = "gen_save"
    /\ LET q == req[r]
           m == "Something went wrong while generating tokens"
       IN  IF q.op = "refresh"
           THEN Respond(req, r, q, RefreshCatch(m).status, RefreshCatch(m).msg,
                        NoToken, NoToken)
           ELSE Respond(req, r, q, 500, m, NoToken, NoToken)
    /\ UNCHANGED <<now, db, hist, lastWriter, observe, regvars>>

\* loginUser: findById(...).select("-password -refreshToken") and the
\* response carrying the pair.
LoginSelect(r) ==
    /\ req[r].pc = "lg_select"
    /\ LET q == req[r] IN
       /\ Respond(req, r, [q EXCEPT !.user = SelectSanitized(UserFields)],
                  200, "User logged in successfully", q.newAcc, q.newTok)
       /\ superseded' = superseded \cup ({latest[q.uid]} \ {NoToken})
       /\ latest' = [latest EXCEPT ![q.uid] = q.newTok]
       /\ IF observe
          THEN /\ prevLogin' = prevLogin \cup ({lastLogin[q.uid]} \ {NoToken})
               /\ lastLogin' = [lastLogin EXCEPT ![q.uid] = q.newTok]
          ELSE UNCHANGED <<lastLogin, prevLogin>>
       /\ UNCHANGED used
    /\ UNCHANGED <<now, db, lastWriter, observe, regvars>>

\* logoutUser for the caller the authorization middleware resolved:
\* findByIdAndUpdate(_id, {$set: {refreshToken: undefined}}).  What reaches
\* the store depends on the Mongoose release the build installs (the
\* dependency manifest is not part of the sources): releases before 6 send
\* the undefined value as null, clearing the field (cleared = TRUE);
\* releases from 6 on strip undefined keys from an update, which leaves an
\* empty $set and the record as it was (cleared = FALSE).
LogoutUser(r, u, cleared) ==
    /\ FirstFree(r)
    /\ req' = [Slots EXCEPT ![r] =
                 [IdleReq EXCEPT !.op = "logout", !.pc = "done", !.uid = u,
                                 !.status = 200,
                                 !.msg = "User logged out successfully"]]
    /\ prevResp' = Remember("logout", 200, db[u].refreshToken)
    /\ db' = IF cleared THEN SaveRefreshToken(db, u, NoToken) ELSE db
    /\ lastWriter' = IF cleared THEN [Forget EXCEPT ![u] = r] ELSE Forget
    /\ UNCHANGED <<now, hist, observe, regvars>>

\* changeCurrentPassword for the caller the authorization middleware
\* resolved, up to the save: findById and isPasswordCorrect(oldpassword)
\* on the document read.
ChangePasswordCheck(r, u, oldpassword, newPassword) ==
    /\ FirstFree(r)
    /\ LET q == [IdleReq EXCEPT !.op = "password", !.uid = u,
                                !.password = newPassword]
       IN  IF ~isPasswordCorrect(oldpassword, db[u].password)
           THEN Respond(Slots, r, q, 400, "Invalid old password.", NoToken, NoToken)
           ELSE /\ req' = [Slots EXCEPT ![r] = [q EXCEPT !.pc = "pw_save"]]
                /\ UNCHANGED prevResp
    /\ lastWriter' = Forget
    /\ UNCHANGED <<now, db, hist, observe, regvars>>

\* changeCurrentPassword: the save of the new password and the response.
ChangePasswordSave(r) ==
    /\ req[r].pc = "pw_save"
    /\ db' = SavePassword(db, req[r].uid, req[r].password)
    /\ Respond(req, r, req[r], 200, "Password changed successfully.", NoToken, NoToken)
    /\ UNCHANGED <<now, hist, lastWriter, observe, regvars>>

\* A response of status 200 whose body is a user document made of the
\* given fields of the record of user v.
RespondWithUser(r, q, fields, v, msg) ==
    Respond(Slots, r,
            [q EXCEPT !.user = fields,
                      !.userRefreshToken = RefreshTokenIn(fields, db[v].refreshToken)],
            200, msg, NoToken, NoToken)

\* getUserChannelProfile for caller u and the username of the URL: the
\* aggregation matches the lowercased username and projects password: 0.
GetUserChannelProfile(r, u, username) ==
    /\ FirstFree(r)
    /\ LET q == [IdleReq EXCEPT !.op = "profile", !.uid = u, !.username = username]
           channel == {v \in Registered : UsernameOf(v) = toLowerCase(username)}
       IN  IF username = ""
           THEN Respond(Slots, r, q, 400, "Username is missing.", NoToken, NoToken)
           ELSE IF channel = {}
           THEN Respond(Slots, r, q, 404, "Channel not found.", NoToken, NoToken)
           ELSE RespondWithUser(r, q, SelectWithoutPassword(ChannelFields),
                                FirstOf(channel),
                                "User channel profile fetched successfully.")
    /\ lastWriter' = Forget
    /\ UNCHANGED <<now, db, hist, observe, regvars>>

\* getWatchHistory for caller u: every video of the history comes with
\* its owner's document, projected with password: 0.
GetWatchHistory(r, u) ==
    /\ FirstFree(r)
    /\ RespondWithUser(r, [IdleReq EXCEPT !.op = "history", !.uid = u],
                       SelectWithoutPassword(UserFields), WatchedVideoOwner(u),
                       "Watch history fetched successfully")
    /\ lastWriter' = Forget
    /\ UNCHANGED <<now, db, hist, observe, regvars>>

\* updateAccountDetails for caller u: findByIdAndUpdate with new: true and
\* .select("-password"); the response is the updated document.
UpdateAccountDetails(r, u, fullName, email) ==
    /\ FirstFree(r)
    /\ LET q == [IdleReq EXCEPT !.op = "account", !.uid = u, !.email = email] IN
       IF fullName = "" \/ email = ""
       THEN /\ Respond(Slots, r, q, 400, "All fields are required", NoToken, NoToken)
            /\ UNCHANGED db
       ELSE /\ db' = SaveAccountDetails(db, u, email)
            /\ RespondWithUser(r, q, SelectWithoutPassword(UserFields), u,
                               "Account details updated successfully.")
    /\ lastWriter' = Forget
    /\ UNCHANGED <<now, hist, observe, regvars>>

\* updateUserAvater (image = "avatar") and updateUserCoverImage (image =
\* "coverImage") for caller u, up to the upload: the file check, findById
\* and the removal of the old image.
UpdateImageCheck(r, u, image, file) ==
    /\ FirstFree(r)
    /\ LET q == [IdleReq EXCEPT !.op = image, !.uid = u] IN
       IF ~file
       THEN Respond(Slots, r, q, 400,
                    IF image = "avatar" THEN "Avatar file is missing."
                    ELSE "Cover image is missing.", NoToken, NoToken)
       ELSE /\ req' = [Slots EXCEPT ![r] = [q EXCEPT !.pc = "img_upload"]]
            /\ UNCHANGED prevResp
    /\ lastWriter' = Forget
    /\ UNCHANGED <<now, db, hist, observe, regvars>>

\* The upload returns no url: 400 for the avatar, 500 for the cover image.
UpdateImageUploadFail(r) ==
    /\ req[r].pc = "img_upload"
    /\ IF req[r].op = "avatar"
       THEN Respond(req, r, req[r], 400, "Error while uploading avatar.",
                    NoToken, NoToken)
       ELSE Respond(req, r, req[r], 500, "Error while uploading cover image.",
                    NoToken, NoToken)
    /\ UNCHANGED <<now, db, hist, lastWriter, observe, regvars>>

\* The upload succeeded: findByIdAndUpdate sets the image url (not part of
\* the record kept here) and .select("-password") shapes the response.
UpdateImageSave(r) ==
    /\ req[r].pc = "img_upload"
    /\ LET q == req[r]
           fields == SelectWithoutPassword(UserFields)
       IN  Respond(req, r,
                   [q EXCEPT !.user = fields,
                             !.userRefreshToken =
                                 RefreshTokenIn(fields, db[q.uid].refreshToken)],
                   200,
                   IF q.op = "avatar" THEN "Avatar updated successfully."
                   ELSE "Cover image updated successfully.", NoToken, NoToken)
    /\ UNCHANGED <<now, db, hist, lastWriter, observe, regvars>>

\* The response (or thrown error) that ends register request r.
RegRespond(r, q, status, msg, user) ==
    reg' = [reg EXCEPT ![r] = [q EXCEPT !.pc = "done", !.status = status,
                                        !.msg = msg, !.user = user]]

\* registerUser up to the uploads: the empty-field check, findOne and the
\* avatar check.
RegisterCheck(r, email, username, avatar) ==
    /\ reg[r].pc \in {"idle", "done"}
    /\ LET q == [IdleReg EXCEPT !.email = email, !.username = username,
                                !.avatar = avatar]
       IN  IF email = "" \/ username = ""
           THEN RegRespond(r, q, 400, "All fields are required", {})
           ELSE IF ExistingUser(accounts, email, username)
           THEN RegRespond(r, q, 409, "User with email/username already exists", {})
           ELSE IF ~avatar
           THEN RegRespond(r, q, 400, "Avatar file is required", {})
           ELSE reg' = [reg EXCEPT ![r] = [q EXCEPT !.pc = "create"]]
    /\ UNCHANGED <<now, db, req, prevResp, hist, lastWriter, observe, accounts>>

\* registerUser after the uploads: User.create, which the unique indexes
\* can reject, then findById(...).select("-password -refreshToken") and
\* the response.
RegisterCreate(r) ==
    /\ reg[r].pc = "create"
    /\ Len(accounts) < MaxAccounts
    /\ LET q == reg[r]
           doc == NewUser(q.email, q.username)
       IN  IF DuplicateKey(accounts, doc)
           THEN /\ RegRespond(r, q, 500, "E11000 duplicate key error", {})
                /\ UNCHANGED accounts
           ELSE /\ accounts' = Append(accounts, doc)
                /\ RegRespond(r, q, 201, "User registered successfully",
                              SelectSanitized(UserFields))
    /\ UNCHANGED <<now, db, req, prevResp, hist, lastWriter, observe>>

\* registerUser: uploadOnCloudinary returns nothing for the avatar.
RegisterUploadFail(r) ==
    /\ reg[r].pc = "create"
    /\ RegRespond(r, reg[r], 400, "Avatar upload failed", {})
    /\ UNCHANGED <<now, db, req, prevResp, hist, lastWriter, observe, accounts>>

(* --------------------------- specifications ---------------------------- *)
\* The request bodies tried on /login: <<email, username, password>>, ""
\* for a field that is missing.
Credentials ==
    { <<"", "", "p1">>, <<"e1", "", "">>, <<"e9", "", "p1">>, <<"", "n9", "p1">>,
      <<"e1", "", "p2">>, <<"e1", "", "p1">>, <<"", "n1", "p1">>, <<"e9", "n1", "p1">> }

Next ==
    \/ Tick
    \/ \E r \in ReqIds, c \in Credentials : LoginCheck(r, c[1], c[2], c[3])
    \/ \E r \in ReqIds, t \in Presentable : RefreshBegin(r, t)
    \/ \E r \in ReqIds : RefreshFind(r)
    \/ \E r \in ReqIds : GenFind(r)
    \/ \E r \in ReqIds : GenFindFail(r)
    \/ \E r \in ReqIds : GenSaveOk(r)
    \/ \E r \in ReqIds : GenSaveFail(r)
    \/ \E r \in ReqIds : LoginSelect(r)
    \/ \E r \in ReqIds, u \in Callers, c \in BOOLEAN : LogoutUser(r, u, c)

\* Requests interleave freely at their awaits.
Spec == Init /\ [][Next]_vars

\* A server that resumes a request only while no other is in flight.
StepOfOneAtATime(r) ==
    /\ \A s \in ReqIds \ {r} : Free(s)
    /\ \/ RefreshFind(r)
       \/ GenFind(r) \/ GenFindFail(r)
       \/ GenSaveOk(r) \/ GenSaveFail(r)
       \/ LoginSelect(r)

\* The next step of the request in slot r: the await it stands at
\* resolves or rejects.
StepOf(r) ==
    \/ RefreshFind(r)
    \/ GenFind(r) \/ GenFindFail(r)
    \/ GenSaveOk(r) \/ GenSaveFail(r)
    \/ LoginSelect(r)

\* The requests of Next within one clock second.
FairNext ==
    \/ \E r \in ReqIds, c \in Credentials : LoginCheck(r, c[1], c[2], c[3])
    \/ \E r \in ReqIds, t \in Presentable : RefreshBegin(r, t)
    \/ \E r \in ReqIds : StepOf(r)
    \/ \E r \in ReqIds, u \in Callers, c \in BOOLEAN : LogoutUser(r, u, c)

\* Every call to the store and to the token primitives returns or fails,
\* and the event loop runs every continuation that is ready.
FairSpec == Init /\ [][FairNext]_vars /\ \A r \in ReqIds : WF_vars(StepOf(r))

\* Requests do not overlap: one starts only when none is in flight.
SeqNext ==
    \/ Tick
    \/ Quiescent /\ \E r \in ReqIds, c \in Credentials :
          LoginCheck(r, c[1], c[2], c[3])
    \/ Quiescent /\ \E r \in ReqIds, t \in Presentable : RefreshBegin(r, t)
    \/ \E r \in ReqIds : RefreshFind(r)
    \/ \E r \in ReqIds : GenFind(r)
    \/ \E r \in ReqIds : GenFindFail(r)
    \/ \E r \in ReqIds : GenSaveOk(r)
    \/ \E r \in ReqIds : GenSaveFail(r)
    \/ \E r \in ReqIds : LoginSelect(r)
    \/ Quiescent /\ \E r \in ReqIds, u \in Callers, c \in BOOLEAN : LogoutUser(r, u, c)

SeqSpec == SeqInit /\ [][SeqNext]_vars

\* The request bodies tried on /change-password: <<oldpassword, newPassword>>.
PasswordChanges == { <<"p1", "p2">>, <<"p2", "p1">>, <<"p9", "p2">> }

\* Password changes arriving at any time, also while a session request
\* (which start one after the other) is in flight.
PwNext ==
    \/ SeqNext
    \/ \E r \in ReqIds, u \in Callers, c \in PasswordChanges :
          ChangePasswordCheck(r, u, c[1], c[2])
    \/ \E r \in ReqIds : ChangePasswordSave(r)

PwSpec == Init /\ [][PwNext]_vars

\* The request bodies tried on /register: <<email, username, avatar given>>.
Registrations ==
    { <<"a@x", "alice", TRUE>>, <<"b@x", "Alice", TRUE>>, <<"a@x", "bob", TRUE>>,
      <<"b@x", "bob", TRUE>>, <<"b@x", "", TRUE>>, <<"c@x", "carol", FALSE>> }

\* Register requests, interleaving at their awaits.
RegNext ==
    \/ \E r \in ReqIds, b \in Registrations : RegisterCheck(r, b[1], b[2], b[3])
    \/ \E r \in ReqIds : RegisterCreate(r)
    \/ \E r \in ReqIds : RegisterUploadFail(r)

RegSpec == Init /\ [][RegNext]_vars

\* Registration and the session requests share no state: a run of the
\* service is followed along one kind of request or the other.
NoRegistrationYet == \A r \in ReqIds : reg[r].pc = "idle"
NoRequestYet == now = 0 /\ \A r \in ReqIds : req[r].op = "idle"

SiteNext ==
    \/ NoRegistrationYet /\ SeqNext
    \/ NoRequestYet /\ RegNext

SiteSpec == Init /\ [][SiteNext]_vars

\* The usernames tried in the URL of /c/:username, the request bodies
\* tried on /update-account (<<fullName, email>>), and the refresh tokens
\* a client can read in the user documents of the responses it holds.
ChannelNames == {"", "n9", "n1", "n2"}
AccountBodies == { <<"", "e1">>, <<"f1", "e1">>, <<"f1", "e7">> }
Disclosed == {req[s].userRefreshToken : s \in ReqIds} \ {NoToken}

\* The session requests together with the profile requests of a caller,
\* who also presents to /refresh-token what the responses disclosed;
\* requests start one after the other.
ProfileNext ==
    \/ SeqNext
    \/ Quiescent /\ \E r \in ReqIds, u \in Callers, n \in ChannelNames :
          GetUserChannelProfile(r, u, n)
    \/ Quiescent /\ \E r \in ReqIds, u \in Callers : GetWatchHistory(r, u)
    \/ Quiescent /\ \E r \in ReqIds, u \in Callers, b \in AccountBodies :
          UpdateAccountDetails(r, u, b[1], b[2])
    \/ Quiescent /\ \E r \in ReqIds, u \in Callers,
                       image \in {"avatar", "coverImage"}, file \in BOOLEAN :
          UpdateImageCheck(r, u, image, file)
    \/ \E r \in ReqIds : UpdateImageUploadFail(r)
    \/ \E r \in ReqIds : UpdateImageSave(r)
    \/ Quiescent /\ \E r \in ReqIds, t \in Disclosed : RefreshBegin(r, t)

ProfileSpec == Init /\ [][ProfileNext]_vars

(* ------------------------------- claims -------------------------------- *)
\* What refreshAccessToken does with token t presented in the current
\* state, no other request interfering: TRUE when it returns a new pair.
Accepts(t) ==
    /\ t # NoToken
    /\ jwtVerify(t, now) = "ok"
    /\ t.id \in Registered
    /\ TokenMatches(t, db[t.id].refreshToken)

Done(r) == req[r].pc = "done"
RefreshDone(r) == req[r].op = "refresh" /\ Done(r)
NoTokens(q) == q.accessToken = NoToken /\ q.refreshToken = NoToken
Expired(tok, clock) == clock >= tok.iat + RefreshExpiry

\* C1: a refresh request ends with tokens in its response only in the step
\* that saves the new refresh token, and only when the token it presented
\* was there, carried the refresh signature, had not expired when it was
\* verified, named an existing user, and was textually equal to the
\* refreshToken field read from that user's record; the step overwrites
\* that field with the returned token when the token differs from the one
\* the document was loaded with.  Every other ending carries no token.
C1_RefreshOnlyIfPreconditions ==
    [][\A r \in ReqIds :
         (/\ req'[r] # req[r]
          /\ req'[r].op = "refresh" /\ req'[r].pc = "done"
          /\ (req'[r].status = 200 \/ ~NoTokens(req'[r])))
         => (/\ req[r].op = "refresh" /\ req[r].pc = "gen_save"
             /\ req[r].tok # NoToken
             /\ req[r].tok.secret = "refresh"
             /\ ~Expired(req[r].tok, req[r].vtime)
             /\ req[r].uid = req[r].tok.id /\ req[r].uid \in Registered
             /\ req[r].seen = req[r].tok
             /\ req'[r].status = 200
             /\ req'[r].refreshToken # NoToken /\ req'[r].accessToken # NoToken
             /\ Modified(req[r].loaded, req'[r].refreshToken)
                => db'[req[r].uid].refreshToken = req'[r].refreshToken)]_vars

\* C1 witness: a refresh has returned a pair, and another has been refused.
C1_Witness ==
    \E r, s \in ReqIds :
       /\ RefreshDone(r) /\ req[r].status = 200 /\ req[r].refreshToken # NoToken
       /\ RefreshDone(s) /\ req[s].status = 401 /\ req[s].tok.secret = "refresh"

\* C2: a refresh presenting the refresh token that the login completed just
\* before it returned succeeds (unless the token expired meanwhile or the
\* save failed), and the refresh token it returns differs from the one
\* presented.
C2_LoginThenRefreshRotates ==
    \A r \in ReqIds :
       (RefreshDone(r) /\ req[r].after = "login")
       => /\ \/ req[r].status = 200
             \/ req[r].msg \in {"jwt expired",
                                "Something went wrong while generating tokens"}
          /\ req[r].status = 200 => req[r].refreshToken # req[r].tok

\* C3: a refresh presenting a token that an earlier, completed refresh was
\* given successfully ends in the authentication failure 401.
C3_NoReplay ==
    \A r \in ReqIds :
       (RefreshDone(r) /\ req[r].replay)
       => (req[r].status = 401 /\ NoTokens(req[r]))

\* C4: a refresh presenting a token returned by a login of the user that a
\* later successful login of the same user has followed ends in the
\* authentication failure 401.
C4_PriorLoginTokenRejected ==
    \A r \in ReqIds :
       (RefreshDone(r) /\ req[r].stale)
       => (req[r].status = 401 /\ NoTokens(req[r]))

\* C5: once a logout of user u has completed, u's refreshToken field is
\* cleared, and a refresh presenting the token the field held just before
\* the logout fails.
C5_LogoutRevokes ==
    /\ \A r \in ReqIds :
          (req[r].op = "logout" /\ Done(r)) => db[req[r].uid].refreshToken = NoToken
    /\ \A r \in ReqIds :
          (RefreshDone(r) /\ req[r].after = "logout") => req[r].status = 401

\* C6: with requests that do not overlap, whenever none is in flight the
\* only refresh token of a user that refresh accepts is the one most
\* recently returned to that user, and no refresh token returned before it
\* is accepted.
C6_OnlyLatestAccepted ==
    Quiescent =>
       /\ \A t \in Issued : (Accepts(t) /\ t.id \in Callers) => t = latest[t.id]
       /\ \A t \in superseded : ~Accepts(t)

\* C7: a refresh presenting a refresh-signed token whose expiry had passed
\* when it was verified ends in 401 with the message "jwt expired" and no
\* tokens, and no refresh that fails for another reason (bad signature,
\* unknown user, mismatch with the stored token, missing token) ends with
\* that message.
C7_ExpiredDistinguishable ==
    \A r \in ReqIds :
       RefreshDone(r) =>
          /\ (req[r].tok.secret = "refresh" /\ Expired(req[r].tok, req[r].vtime))
             => (req[r].status = 401 /\ req[r].msg = "jwt expired" /\ NoTokens(req[r]))
          /\ req[r].msg = "jwt expired"
             => (req[r].tok.secret = "refresh" /\ Expired(req[r].tok, req[r].vtime))
          /\ (req[r].tok # NoToken /\ req[r].tok.secret # "refresh")
             => (req[r].status = 401 /\ req[r].msg = "invalid signature")

\* C7 witness: a refresh presenting the token stored for its user was
\* refused because the token had expired, with a message that is neither
\* the one for a bad signature nor the one for a mismatch.
C7_Witness ==
    \E r \in ReqIds :
       /\ RefreshDone(r) /\ req[r].tok.secret = "refresh"
       /\ req[r].tok.id \in Registered
       /\ db[req[r].tok.id].refreshToken = req[r].tok
       /\ Expired(req[r].tok, req[r].vtime) /\ req[r].status = 401
       /\ req[r].msg \notin {"invalid signature", "Expired or invalid refresh token",
                              "Invalid refresh token", "No refresh token found"}

\* The users a login body identifies, and whether its password is wrong
\* for each of them.
Identified(q) ==
    {u \in Registered : db[u].email = q.email \/ UsernameOf(u) = q.username}
WrongPassword(q) ==
    /\ q.password # "" /\ Identified(q) # {}
    /\ \A u \in Identified(q) : db[u].password # Hash(q.password)

\* C8: a login whose body identifies an existing user and carries a
\* password that does not match ends at once in 401 with no access or
\* refresh token, and the step leaves every user record as it was.
C8_WrongPasswordLogin ==
    [][\A r \in ReqIds :
         (/\ Free(r) /\ req'[r] # req[r]
          /\ req'[r].op = "login" /\ WrongPassword(req'[r]))
         => (/\ req'[r].pc = "done" /\ req'[r].status = 401
             /\ NoTokens(req'[r])
             /\ db' = db)]_vars

\* C8 witness: a wrong-password login was refused while the user held a
\* stored refresh token.
C8_Witness ==
    \E r \in ReqIds :
       /\ req[r].op = "login" /\ Done(r) /\ WrongPassword(req[r])
       /\ req[r].status = 401
       /\ db["u1"].refreshToken # NoToken

\* C9: when two refresh requests presenting the same token have both
\* returned a pair whose refresh token differs from the presented one (so
\* each passed the comparison before the other wrote), the refreshToken
\* field holds the token of the request that wrote last, and the token
\* returned to the other request is accepted only if it is that same text.
C9_RaceLastWriterTokenOnly ==
    \A r, s \in ReqIds :
       (/\ r # s /\ RefreshDone(r) /\ RefreshDone(s)
        /\ req[r].status = 200 /\ req[s].status = 200
        /\ req[r].tok = req[s].tok
        /\ req[r].refreshToken # req[r].tok /\ req[s].refreshToken # req[s].tok
        /\ lastWriter[req[s].uid] = s)
       => (/\ db[req[s].uid].refreshToken = req[s].refreshToken
           /\ Accepts(req[r].refreshToken) => req[r].refreshToken = req[s].refreshToken)

\* C9 witness: the race has happened; both requests got a pair, the second
\* writer's token is accepted and the other client's token is rejected.
C9_Witness ==
    \E r, s \in ReqIds :
       /\ r # s /\ RefreshDone(r) /\ RefreshDone(s)
       /\ req[r].status = 200 /\ req[s].status = 200
       /\ req[r].tok = req[s].tok
       /\ req[r].refreshToken # req[r].tok /\ req[s].refreshToken # req[s].tok
       /\ req[r].refreshToken # req[s].refreshToken
       /\ lastWriter[req[s].uid] = s
       /\ Accepts(req[s].refreshToken)
       /\ ~Accepts(req[r].refreshToken)

\* The refresh tokens in the responses of the completed logins and
\* refreshes of user u.
Returned(u) ==
    {req[r].refreshToken : r \in {x \in ReqIds :
        Done(x) /\ req[x].op \in {"login", "refresh"} /\ req[x].status = 200
        /\ req[x].uid = u}}

\* C10: when every request has completed, the refreshToken field of each
\* user holds what the request that wrote it last wrote, and at most one
\* of the refresh tokens returned to clients is accepted by refresh (a
\* token being its text: two responses can carry the same text).
C10_LastWriterWins ==
    Quiescent =>
       \A u \in Registered :
          /\ lastWriter[u] # 0
             => db[u].refreshToken = req[lastWriter[u]].refreshToken
          /\ Cardinality({t \in Returned(u) : Accepts(t)}) <= 1

\* C10 witness: a login and a refresh of one user ran concurrently, both
\* returned a pair, and only the last writer's token is accepted.
C10_Witness ==
    /\ Quiescent
    /\ \E r, s \in ReqIds :
          /\ req[r].op = "login" /\ req[s].op = "refresh"
          /\ req[r].status = 200 /\ req[s].status = 200
          /\ req[r].uid = req[s].uid
          /\ req[r].refreshToken # req[s].refreshToken
          /\ lastWriter[req[r].uid] = r
          /\ Accepts(req[r].refreshToken) /\ ~Accepts(req[s].refreshToken)

\* The class of a failure as the caller sees it, by the status of the
\* ApiError: 400 a validation failure, 401 an authentication failure (the
\* caller must log in again), 5xx a failure on the server's side.
ServerSide(status) == status >= 500
GenFailed(r) ==
    /\ req[r].pc \in {"gen_find", "gen_save"}
    /\ req'[r].pc = "done" /\ req'[r].status # 200

\* C11: when findById or save fails inside generateAccessAndRefreshTokens,
\* the request (login or refresh) ends with a server-side failure status,
\* not with the status of an authentication failure.
C11_StorageFailureServerSide ==
    [][\A r \in ReqIds : GenFailed(r) => ServerSide(req'[r].status)]_vars

\* C12: (a) a save of generateAccessAndRefreshTokens that succeeds leaves
\* the refresh token the request goes on to return in the user's
\* refreshToken field; (b) a request ends with tokens only with status 200,
\* after that save, carrying both tokens it generated; (c) when the
\* generation fails the request ends with a failure status and no token.
C12_NoPartialIssuance ==
    [][\A r \in ReqIds :
         /\ (/\ req[r].pc = "gen_save" /\ req'[r].pc \in {"lg_select", "done"}
             /\ req'[r].status \in {0, 200})
            => db'[req[r].uid].refreshToken = req[r].newTok
         /\ (req'[r] # req[r] /\ req'[r].pc = "done" /\ ~NoTokens(req'[r]))
            => (/\ req'[r].status = 200
                /\ req[r].pc \in {"gen_save", "lg_select"}
                /\ req'[r].refreshToken = req[r].newTok
                /\ req'[r].accessToken = req[r].newAcc
                /\ req[r].newTok # NoToken /\ req[r].newAcc # NoToken)
         /\ GenFailed(r) => (NoTokens(req'[r]) /\ req'[r].status >= 400)]_vars

PasswordStep(r) ==
    /\ req'[r] # req[r]
    /\ \/ req[r].op = "password" /\ Active(r)
       \/ req'[r].op = "password" /\ Free(r)

\* C13: no step of a changePassword request, whether it ends in success or
\* in the refusal of the old password, changes the refreshToken field of
\* any user, and refresh accepts after the step exactly the tokens it
\* accepted before it.
C13_ChangePasswordKeepsSession ==
    [][(\E r \in ReqIds : PasswordStep(r))
         => /\ \A u \in Registered : db'[u].refreshToken = db[u].refreshToken
            /\ \A t \in Presentable : Accepts(t) <=> Accepts(t)']_vars

\* C13 witness: a changePassword has replaced the password of a user whose
\* stored refresh token refresh still accepts.
C13_Witness ==
    \E r \in ReqIds :
       /\ req[r].op = "password" /\ Done(r) /\ req[r].status = 200
       /\ db[req[r].uid].password # Hash(PlainPasswordOf(req[r].uid))
       /\ db[req[r].uid].refreshToken # NoToken
       /\ Accepts(db[req[r].uid].refreshToken)

\* A completed request that was refused for an authentication reason: a
\* login with its fields present (unknown identifier or wrong password),
\* or a refresh that presented a token (bad signature, expired, unknown
\* user, mismatch); failures of the token generation are not among them.
AuthRefused(r) ==
    /\ Done(r) /\ req[r].status # 200
    /\ req[r].msg # "Something went wrong while generating tokens"
    /\ \/ /\ req[r].op = "login" /\ req[r].password # ""
          /\ (req[r].email # "" \/ req[r].username # "")
       \/ req[r].op = "refresh" /\ req[r].tok # NoToken

\* C14: every authentication failure of login and refresh reaches the
\* caller as the same failure class, the status 401; a login with an
\* unknown identifier is not told apart from one with a wrong password.
C14_AuthFailuresUndifferentiated ==
    \A r \in ReqIds : AuthRefused(r) => req[r].status = 401

\* C15: no two documents created by register requests, however they
\* interleave, share an email, and no two have usernames that are equal
\* after lowercasing.
C15_UniqueEmailAndUsername ==
    \A i, j \in 1..Len(accounts) :
       i # j => /\ accounts[i].email # accounts[j].email
                /\ toLowerCase(accounts[i].username) # toLowerCase(accounts[j].username)

\* C15 witness: with "alice" registered, a registration of "Alice" under
\* another email passed the existence check and was then turned down by
\* the store, and a second account exists beside it.
C15_Witness ==
    /\ Len(accounts) = 2
    /\ \E i \in 1..Len(accounts) : accounts[i].username = "alice"
    /\ \E r \in ReqIds :
          /\ reg[r].pc = "done" /\ reg[r].username = "Alice"
          /\ reg[r].status = 500

\* C16: the user object in the response of a successful login, and in
\* the response of a successful registration, is there and has neither a
\* password field nor a refreshToken field.
C16_SanitizedUser ==
    /\ \A r \in ReqIds :
          (req[r].op = "login" /\ Done(r) /\ req[r].status = 200)
          => (req[r].user # {} /\ req[r].user \cap {"password", "refreshToken"} = {})
    /\ \A r \in ReqIds :
          (reg[r].pc = "done" /\ reg[r].status = 201)
          => (reg[r].user # {} /\ reg[r].user \cap {"password", "refreshToken"} = {})

\* C16 witness: a login has answered with the token pair and a user
\* object while the record holds a password hash and the refresh token
\* just stored.
C16_Witness ==
    \E r \in ReqIds :
       /\ req[r].op = "login" /\ Done(r) /\ req[r].status = 200
       /\ "username" \in req[r].user
       /\ db[req[r].uid].refreshToken = req[r].refreshToken
       /\ req[r].refreshToken # NoToken

\* A step in which a request of kind op arrives in slot r.
Arrives(r, op) == Free(r) /\ req'[r] # req[r] /\ req'[r].op = op

\* C17: a logout of caller u answers 200 whatever u's refreshToken field
\* holds, and its step changes nothing in the user collection except that
\* field of u's own record, which it clears or leaves as it is.
C17_LogoutFrame ==
    [][\A r \in ReqIds :
         Arrives(r, "logout")
         => (/\ req'[r].pc = "done" /\ req'[r].status = 200
             /\ \A v \in Registered \ {req'[r].uid} : db'[v] = db[v]
             /\ db'[req'[r].uid].password = db[req'[r].uid].password
             /\ db'[req'[r].uid].refreshToken
                   \in {NoToken, db[req'[r].uid].refreshToken})]_vars

\* C17 witness: a logout has answered 200 and left the caller, who had
\* been given a token, with an empty refreshToken field, while the other
\* user's record still holds its token.
C17_Witness ==
    \E r \in ReqIds :
       /\ req[r].op = "logout" /\ Done(r) /\ req[r].status = 200
       /\ latest[req[r].uid] # NoToken
       /\ db[req[r].uid].refreshToken = NoToken
       /\ \E v \in Registered \ {req[r].uid} : db[v].refreshToken # NoToken

MissingFields(q) == (q.email = "" /\ q.username = "") \/ q.password = ""

\* C18 as stated: a login without identifier or without password, and a
\* refresh without token, end with the status of a validation failure
\* (400) and no token.
C18_ValidationFailureClass ==
    \A r \in ReqIds :
       (Done(r) /\ \/ req[r].op = "login" /\ MissingFields(req[r])
                   \/ req[r].op = "refresh" /\ req[r].tok = NoToken)
       => (req[r].status = 400 /\ NoTokens(req[r]))

\* C18, amended: a login without identifier or without password ends in
\* its first step with 400, whatever the lookup would have found; a
\* refresh without token ends in its first step with 401 "No refresh token
\* found", the status of the authentication failures; both carry no token
\* and leave the user collection as it was.
C18_RejectedBeforeLookup ==
    [][\A r \in ReqIds :
         /\ (Arrives(r, "login") /\ MissingFields(req'[r]))
            => (/\ req'[r].pc = "done" /\ req'[r].status = 400
                /\ NoTokens(req'[r]) /\ db' = db)
         /\ (Arrives(r, "refresh") /\ req'[r].tok = NoToken)
            => (/\ req'[r].pc = "done" /\ req'[r].status = 401
                /\ req'[r].msg = "No refresh token found"
                /\ NoTokens(req'[r]) /\ db' = db)]_vars

\* C18 witness: a login naming an existing user but carrying no password
\* was refused with 400 while that user's record held a refresh token.
C18_Witness ==
    \E r \in ReqIds :
       /\ req[r].op = "login" /\ Done(r)
       /\ req[r].email = EmailOf("u1") /\ req[r].password = ""
       /\ req[r].status = 400
       /\ db["u1"].refreshToken # NoToken

\* C20: the step in which a refresh is refused (no token, bad signature,
\* expired, unknown user, mismatch with the stored value) leaves every
\* record of the user collection as it was.
C20_FailedRefreshWritesNothing ==
    [][\A r \in ReqIds :
         (/\ req'[r] # req[r]
          /\ req'[r].op = "refresh" /\ req'[r].pc = "done" /\ req'[r].status # 200
          /\ (Free(r) \/ req[r].pc = "rf_find"))
         => db' = db]_vars

\* C20 witness: a refresh presenting a token other than the stored one
\* was refused, and the stored token is still accepted.
C20_Witness ==
    \E r \in ReqIds :
       /\ RefreshDone(r) /\ req[r].status = 401
       /\ req[r].msg = "Expired or invalid refresh token"
       /\ req[r].tok.id \in Registered
       /\ db[req[r].tok.id].refreshToken # req[r].tok
       /\ Accepts(db[req[r].tok.id].refreshToken)

\* C19: a login, refresh or logout request that is in flight can always
\* take its next step, whatever the other requests are doing, and every
\* such request eventually ends with a response or an error.
C19_EveryRequestTerminates ==
    /\ [](\A r \in ReqIds : Active(r) => ENABLED StepOf(r))
    /\ \A r \in ReqIds : Active(r) ~> Done(r)

\* C19 witness: a request has ended with a response while another one,
\* which started before it ended, is still in flight.
C19_Witness ==
    \E r, s \in ReqIds :
       /\ Done(r) /\ req[r].status = 200 /\ req[r].op \in {"login", "refresh"}
       /\ Active(s)

\* A completed logout of user u is on record.
LoggedOut(u) == \E r \in ReqIds : req[r].op = "logout" /\ Done(r) /\ req[r].uid = u

\* C21: once a logout of user u has completed and u's refreshToken field
\* is empty, the only step that puts a token into the field is the save
\* of a login of u; a refresh that had passed its comparison before the
\* logout ran does not.
C21_LogoutStaysCleared ==
    [][\A u \in Registered :
         (/\ LoggedOut(u)
          /\ db[u].refreshToken = NoToken /\ db'[u].refreshToken # NoToken)
         => \E s \in ReqIds :
               /\ req[s].op = "login" /\ req[s].uid = u
               /\ req[s].pc = "gen_save" /\ req'[s].pc = "lg_select"]_vars

\* C22: no response of getUserChannelProfile, getWatchHistory,
\* updateAccountDetails, updateUserAvater or updateUserCoverImage carries
\* a stored refresh token, and no refresh presenting a token that names a
\* user other than the callers is answered with a pair.
C22_RefreshTokenNotDisclosed ==
    /\ \A r \in ReqIds :
          (Done(r) /\ req[r].op \in {"profile", "history", "account",
                                     "avatar", "coverImage"})
          => req[r].userRefreshToken = NoToken
    /\ \A r \in ReqIds :
          (RefreshDone(r) /\ req[r].status = 200) => req[r].tok.id \in Callers

=============================================================================
